---- MODULE Spec2Model ----
(***************************************************************************)
(* Model of the Config facade of src/src/config/mod.rs: the Settings      *)
(* fields, the optional Session overlay, the live model, the last-message  *)
(* cache, the sessions directory and the message log.  Every public        *)
(* method of Config is one action.  Session (config/session.rs), Input     *)
(* (config/input.rs) and Model (client) are not part of the source tree;   *)
(* their operators below follow the specification text.                    *)
(***************************************************************************)
EXTENDS Integers, Sequences, FiniteSets, TLC

\* ---------------------------------------------------------------- bounds
\* Number of facade calls in one explored run.
MaxSteps == 4

\* ------------------------------------------------------- Option<T> values
None == <<>>
Some(x) == <<x>>
IsSome(o) == o # <<>>
Unwrap(o) == o[1]

\* ------------------------------------------------------------ input sets
\* Model catalog (list_chat_models) and identifiers a caller or a session
\* file may carry; "X" belongs to a client that is no longer configured.
Catalog == {"A", "B"}
ModelIds == Catalog \cup {"X"}
F64Values == {0, 1}
OptF64 == {None} \cup {Some(v) : v \in F64Values}
OptBool == {None, Some(TRUE), Some(FALSE)}
TEMP_SESSION_NAME == "temp"
\* "work" and "old" exist on disk at startup, "new" does not.
SessionNames == {TEMP_SESSION_NAME, "work", "old", "new"}
UseNames == {None} \cup {Some(n) : n \in {"work", "old", "new"}}
SaveNames == {"", "new"}
Inputs == {"q"}
Outputs == {"", "a"}
Answers == {"yes", "no", "fail"}

VARIABLES
    model_id,          \* Config.model_id
    temperature,       \* Config.temperature
    top_p,             \* Config.top_p
    save,              \* Config.save
    save_session,      \* Config.save_session
    function_calling,  \* Config.function_calling
    session,           \* Config.session : Option<Session>
    model,             \* Config.model : the live model
    last_message,      \* Config.last_message : Option<(Input, String)>
    session_files,     \* sessions_dir: name -> Option<file content>
    messages_file,     \* messages.md: sequence of appended entries
    op,                \* the facade method called last
    args,              \* the arguments it was called with
    result,            \* its outcome: "ok" or the error raised
    wrote,             \* session files written by the last call
    model_at_start,    \* live model just before the start of the active session
    saved,             \* what the save just before the last exit stored, and where
    steps,             \* calls made so far
    rwlock,            \* the RwLock around the Config: its writer and its readers
    pc,                \* the control loop's position: idle, locked, a line, done
    local_session,     \* exit_session's local: the session taken out of the Config
    seen               \* what the latest read under a read lock observed

vars == <<model_id, temperature, top_p, save, save_session, function_calling,
          session, model, last_message, session_files, messages_file,
          op, args, result, wrote, model_at_start, saved, steps,
          rwlock, pc, local_session, seen>>

\* The lock, the threads' positions and observations.
sharing == <<rwlock, pc, local_session, seen>>

settings == <<model_id, temperature, top_p, save, save_session, function_calling>>

\* ------------------------------------------------------------------ Model
\* Model::find over the catalog: a model descriptor or not found.
Find(value) == IF value \in Catalog
               THEN Some([id |-> value, max_tokens |-> None])
               ELSE None

\* Model::set_max_tokens(value, true)
set_max_tokens(m, value) == [m EXCEPT !.max_tokens = value]

\* ---------------------------------------------------------------- Session
\* Session::new(config, name): empty, not dirty, overlay copied from the
\* current Settings and live model.
Session_new(name) ==
    [name |-> name, model_id |-> model.id, temperature |-> temperature,
     top_p |-> top_p, save_session |-> save_session, messages |-> <<>>,
     dirty |-> FALSE, compressing |-> FALSE]

\* What a session file records.
Session_content(s) ==
    [model_id |-> s.model_id, temperature |-> s.temperature, top_p |-> s.top_p,
     save_session |-> s.save_session, messages |-> s.messages]

\* Session::load(name, path)
Session_load(name, c) ==
    [name |-> name, model_id |-> c.model_id, temperature |-> c.temperature,
     top_p |-> c.top_p, save_session |-> c.save_session, messages |-> c.messages,
     dirty |-> FALSE, compressing |-> FALSE]

Session_is_empty(s) == s.messages = <<>>
Session_set_temperature(s, value) == [s EXCEPT !.temperature = value, !.dirty = TRUE]
Session_set_top_p(s, value) == [s EXCEPT !.top_p = value, !.dirty = TRUE]
Session_set_save_session(s, value) == [s EXCEPT !.save_session = value, !.dirty = TRUE]
Session_set_model(s, m) == [s EXCEPT !.model_id = m.id, !.dirty = TRUE]
Session_add_message(s, input, output) ==
    [s EXCEPT !.messages = Append(@, <<input, output>>), !.dirty = TRUE]
Session_clear_messages(s) == [s EXCEPT !.messages = <<>>, !.dirty = TRUE]

\* Effective save-session toggle: the session's own if set, else the
\* Settings' if set, else the built-in default (persist).
EffectiveSaveSession(s, settings_toggle) ==
    IF IsSome(s.save_session) THEN Unwrap(s.save_session)
    ELSE IF IsSome(settings_toggle) THEN Unwrap(settings_toggle)
    ELSE TRUE

\* Session::save(sessions_dir): on success the file holds the session and
\* the session is no longer dirty; on an I/O error nothing changes.
Session_save(s, files, io) ==
    IF io
    THEN [ok |-> TRUE, session |-> [s EXCEPT !.dirty = FALSE],
          files |-> [files EXCEPT ![s.name] = Some(Session_content(s))],
          wrote |-> {s.name}]
    ELSE [ok |-> FALSE, session |-> s, files |-> files, wrote |-> {}]

\* Session::exit(sessions_dir, false): the persistence pass.
Session_exit(s, files, settings_toggle, io) ==
    IF s.dirty /\ EffectiveSaveSession(s, settings_toggle)
    THEN Session_save(s, files, io)
    ELSE [ok |-> TRUE, session |-> s, files |-> files, wrote |-> {}]

\* Input::session_mut(&mut self.session)
Input_session_mut(sess) == sess

\* ------------------------------------------------------------------- Init
\* Files present in the sessions directory when the process starts: a stale
\* temporary session, a saved session whose model still resolves, and one
\* whose model does not.
InitFiles ==
    [n \in SessionNames |->
        CASE n = TEMP_SESSION_NAME ->
                Some([model_id |-> "A", temperature |-> None, top_p |-> None,
                      save_session |-> None, messages |-> << <<"q", "a">> >>])
          [] n = "work" ->
                Some([model_id |-> "B", temperature |-> Some(1), top_p |-> None,
                      save_session |-> None, messages |-> << <<"q", "a">> >>])
          [] n = "old" ->
                Some([model_id |-> "X", temperature |-> None, top_p |-> None,
                      save_session |-> Some(TRUE), messages |-> <<>>])
          [] OTHER -> None]

\* Config::default followed by Config::init: setup_model binds the live
\* model to the configured identifier, which must resolve.
Init ==
    /\ model_id \in Catalog
    /\ temperature = None
    /\ top_p = None
    /\ save = FALSE
    /\ save_session = None
    /\ function_calling = FALSE
    /\ session = None
    /\ model = Unwrap(Find(model_id))
    /\ last_message = None
    /\ session_files = InitFiles
    /\ messages_file = <<>>
    /\ op = "init"
    /\ args = <<>>
    /\ result = "ok"
    /\ wrote = {}
    /\ model_at_start = None
    /\ saved = None
    /\ steps = 0
    /\ rwlock = [writer |-> FALSE, readers |-> {}]
    /\ pc = "idle"
    /\ local_session = None
    /\ seen = None

\* Bookkeeping shared by every call; sv is the record of a save to keep.
CallSaving(name, a, res, w, sv) ==
    /\ steps < MaxSteps
    /\ steps' = steps + 1
    /\ op' = name
    /\ args' = a
    /\ result' = res
    /\ wrote' = w
    /\ saved' = sv
    /\ UNCHANGED sharing

\* The record of a save is kept across the exit that follows the save and
\* across the start that follows that exit, and dropped by any other call.
Call(name, a, res, w) ==
    CallSaving(name, a, res, w,
               IF \/ (name = "exit_session" /\ op = "save_session")
                  \/ (name = "use_session" /\ op = "exit_session")
               THEN saved ELSE None)

\* ------------------------------------------------------ session-aware setters
\* set_temperature that also writes the Settings' copy when a session is active.
SetTemperature_both(sess, temp, value) ==
    IF IsSome(sess)
    THEN [session |-> Some(Session_set_temperature(Unwrap(sess), value)), settings |-> value]
    ELSE [session |-> sess, settings |-> value]

SetTemperature(sess, temp, value) ==
    IF IsSome(sess)
    THEN [session |-> Some(Session_set_temperature(Unwrap(sess), value)), settings |-> temp]
    ELSE [session |-> sess, settings |-> value]

set_temperature(value) ==
    /\ Call("set_temperature", <<value>>, "ok", {})
    /\ session' = SetTemperature(session, temperature, value).session
    /\ temperature' = SetTemperature(session, temperature, value).settings
    /\ UNCHANGED <<model_id, top_p, save, save_session, function_calling, model,
                   last_message, session_files, messages_file, model_at_start>>

SetTopP(sess, tp, value) ==
    IF IsSome(sess)
    THEN [session |-> Some(Session_set_top_p(Unwrap(sess), value)), settings |-> tp]
    ELSE [session |-> sess, settings |-> value]

set_top_p(value) ==
    /\ Call("set_top_p", <<value>>, "ok", {})
    /\ session' = SetTopP(session, top_p, value).session
    /\ top_p' = SetTopP(session, top_p, value).settings
    /\ UNCHANGED <<model_id, temperature, save, save_session, function_calling, model,
                   last_message, session_files, messages_file, model_at_start>>

\* set_save_session that ignores the active session.
SetSaveSession_settings_only(sess, ss, value) == [session |-> sess, settings |-> value]

SetSaveSession(sess, ss, value) ==
    IF IsSome(sess)
    THEN [session |-> Some(Session_set_save_session(Unwrap(sess), value)), settings |-> ss]
    ELSE [session |-> sess, settings |-> value]

set_save_session(value) ==
    /\ Call("set_save_session", <<value>>, "ok", {})
    /\ session' = SetSaveSession(session, save_session, value).session
    /\ save_session' = SetSaveSession(session, save_session, value).settings
    /\ UNCHANGED <<model_id, temperature, top_p, save, function_calling, model,
                   last_message, session_files, messages_file, model_at_start>>

\* set_model that stores the identifier in the session before resolving it.
SetModel_eager(sess, mdl, value) ==
    IF ~IsSome(Find(value))
    THEN [result |-> "no_model",
          session |-> IF IsSome(sess)
                      THEN Some([Unwrap(sess) EXCEPT !.model_id = value, !.dirty = TRUE])
                      ELSE sess,
          model |-> mdl]
    ELSE [result |-> "ok",
          session |-> IF IsSome(sess)
                      THEN Some(Session_set_model(Unwrap(sess), Unwrap(Find(value))))
                      ELSE sess,
          model |-> Unwrap(Find(value))]

\* set_model that updates the live model only.
SetModel_live_only(sess, mdl, value) ==
    IF ~IsSome(Find(value))
    THEN [result |-> "no_model", session |-> sess, model |-> mdl]
    ELSE [result |-> "ok", session |-> sess, model |-> Unwrap(Find(value))]

\* Config::set_model on a (session, live model) pair.
SetModel(sess, mdl, value) ==
    IF ~IsSome(Find(value))
    THEN [result |-> "no_model", session |-> sess, model |-> mdl]
    ELSE [result |-> "ok",
          session |-> IF IsSome(sess)
                      THEN Some(Session_set_model(Unwrap(sess), Unwrap(Find(value))))
                      ELSE sess,
          model |-> Unwrap(Find(value))]

set_model(value) ==
    /\ Call("set_model", <<value>>, SetModel(session, model, value).result, {})
    /\ session' = SetModel(session, model, value).session
    /\ model' = SetModel(session, model, value).model
    /\ UNCHANGED <<settings, last_message, session_files, messages_file, model_at_start>>

set_model_id ==
    /\ Call("set_model_id", <<>>, "ok", {})
    /\ model_id' = model.id
    /\ UNCHANGED <<temperature, top_p, save, save_session, function_calling, session,
                   model, last_message, session_files, messages_file, model_at_start>>

\* Config::restore_model on a (session, live model) pair.
RestoreModel(sess, mdl, origin_model_id) == SetModel(sess, mdl, origin_model_id)

restore_model ==
    /\ Call("restore_model", <<>>, RestoreModel(session, model, model_id).result, {})
    /\ session' = RestoreModel(session, model, model_id).session
    /\ model' = RestoreModel(session, model, model_id).model
    /\ UNCHANGED <<settings, last_message, session_files, messages_file, model_at_start>>

\* ----------------------------------------------------------- use_session
\* use_session without the check for an active session.
AlreadyInSession_never(sess) == FALSE

\* The check that opens use_session.
AlreadyInSession(sess) == IsSome(sess)

\* use_session that names every new session like the temporary one.
UseSessionCreate_temp_name(name, io) ==
    IF name = None
    THEN IF IsSome(session_files[TEMP_SESSION_NAME]) /\ ~io
         THEN [result |-> "io", session |-> None, model |-> model,
               files |-> session_files]
         ELSE [result |-> "ok", session |-> Some(Session_new(TEMP_SESSION_NAME)),
               model |-> model,
               files |-> [session_files EXCEPT ![TEMP_SESSION_NAME] = None]]
    ELSE IF ~IsSome(session_files[Unwrap(name)])
         THEN [result |-> "ok", session |-> Some(Session_new(TEMP_SESSION_NAME)),
               model |-> model, files |-> session_files]
         ELSE IF ~io
              THEN [result |-> "io", session |-> None, model |-> model,
                    files |-> session_files]
              ELSE LET loaded == Session_load(Unwrap(name),
                                              Unwrap(session_files[Unwrap(name)]))
                       bound == SetModel(Some(loaded), model, loaded.model_id)
                   IN [result |-> bound.result, session |-> bound.session,
                       model |-> bound.model, files |-> session_files]

\* use_session that leaves the stale temporary session file in place.
UseSessionCreate_keep_temp(name, io) ==
    IF name = None
    THEN IF IsSome(session_files[TEMP_SESSION_NAME]) /\ ~io
         THEN [result |-> "io", session |-> None, model |-> model,
               files |-> session_files]
         ELSE [result |-> "ok", session |-> Some(Session_new(TEMP_SESSION_NAME)),
               model |-> model,
               files |-> session_files]
    ELSE IF ~IsSome(session_files[Unwrap(name)])
         THEN [result |-> "ok", session |-> Some(Session_new(Unwrap(name))),
               model |-> model, files |-> session_files]
         ELSE IF ~io
              THEN [result |-> "io", session |-> None, model |-> model,
                    files |-> session_files]
              ELSE LET loaded == Session_load(Unwrap(name),
                                              Unwrap(session_files[Unwrap(name)]))
                       bound == SetModel(Some(loaded), model, loaded.model_id)
                   IN [result |-> bound.result, session |-> bound.session,
                       model |-> bound.model, files |-> session_files]

\* The match on the name: the session installed, the live model and the
\* sessions directory after it.  io tells whether the file operation of
\* this call (remove_file, Session::load) succeeds.
UseSessionCreate(name, io) ==
    IF name = None
    THEN IF IsSome(session_files[TEMP_SESSION_NAME]) /\ ~io
         THEN [result |-> "io", session |-> None, model |-> model,
               files |-> session_files]
         ELSE [result |-> "ok", session |-> Some(Session_new(TEMP_SESSION_NAME)),
               model |-> model,
               files |-> [session_files EXCEPT ![TEMP_SESSION_NAME] = None]]
    ELSE IF ~IsSome(session_files[Unwrap(name)])
         THEN [result |-> "ok", session |-> Some(Session_new(Unwrap(name))),
               model |-> model, files |-> session_files]
         ELSE IF ~io
              THEN [result |-> "io", session |-> None, model |-> model,
                    files |-> session_files]
              ELSE LET loaded == Session_load(Unwrap(name),
                                              Unwrap(session_files[Unwrap(name)]))
                       bound == SetModel(Some(loaded), model, loaded.model_id)
                   IN [result |-> bound.result, session |-> bound.session,
                       model |-> bound.model, files |-> session_files]

\* The seeding of an empty session from the last-message cache.
UseSessionSeed(c, ans) ==
    IF c.result = "ok" /\ IsSome(c.session)
       /\ Session_is_empty(Unwrap(c.session)) /\ IsSome(last_message)
    THEN CASE ans = "fail" -> [c EXCEPT !.result = "prompt"]
           [] ans = "yes" ->
                [c EXCEPT !.session =
                    Some(Session_add_message(Unwrap(c.session),
                                             Unwrap(last_message)[1],
                                             Unwrap(last_message)[2]))]
           [] OTHER -> c
    ELSE c

UseSession(name, ans, io) ==
    IF AlreadyInSession(session)
    THEN [result |-> "already_in_session", session |-> session, model |-> model,
          files |-> session_files]
    ELSE UseSessionSeed(UseSessionCreate(name, io), ans)

use_session(name, ans, io) ==
    /\ Call("use_session", <<name>>, UseSession(name, ans, io).result, {})
    /\ session' = UseSession(name, ans, io).session
    /\ model' = UseSession(name, ans, io).model
    /\ session_files' = UseSession(name, ans, io).files
    /\ model_at_start' = CASE UseSession(name, ans, io).result = "ok" -> Some(model)
                            [] AlreadyInSession(session) -> model_at_start
                            [] OTHER -> None
    /\ UNCHANGED <<settings, last_message, messages_file>>

\* ---------------------------------------------------------- exit_session
\* exit_session that drops the session only after the persistence pass succeeded.
ExitSession_keep_on_error(io) ==
    IF ~IsSome(session)
    THEN [result |-> "ok", session |-> session, model |-> model,
          last_message |-> last_message, files |-> session_files, wrote |-> {}]
    ELSE LET taken == Unwrap(session)
             e == Session_exit(taken, session_files, save_session, io)
             r == RestoreModel(None, model, model_id)
         IN IF ~e.ok
            THEN [result |-> "io", session |-> session, model |-> model,
                  last_message |-> last_message, files |-> e.files,
                  wrote |-> e.wrote]
            ELSE [result |-> r.result, session |-> None, model |-> r.model,
                  last_message |-> None, files |-> e.files, wrote |-> e.wrote]

\* exit_session without the persistence pass.
ExitSession_no_persist(io) ==
    IF ~IsSome(session)
    THEN [result |-> "ok", session |-> session, model |-> model,
          last_message |-> last_message, files |-> session_files, wrote |-> {}]
    ELSE LET r == RestoreModel(None, model, model_id)
         IN [result |-> r.result, session |-> None, model |-> r.model,
             last_message |-> None, files |-> session_files, wrote |-> {}]

ExitSession(io) ==
    IF ~IsSome(session)
    THEN [result |-> "ok", session |-> session, model |-> model,
          last_message |-> last_message, files |-> session_files, wrote |-> {}]
    ELSE LET taken == Unwrap(session)
             e == Session_exit(taken, session_files, save_session, io)
             r == RestoreModel(None, model, model_id)
         IN IF ~e.ok
            THEN [result |-> "io", session |-> None, model |-> model,
                  last_message |-> last_message, files |-> e.files,
                  wrote |-> e.wrote]
            ELSE [result |-> r.result, session |-> None, model |-> r.model,
                  last_message |-> None, files |-> e.files, wrote |-> e.wrote]

exit_session(io) ==
    /\ Call("exit_session", <<>>, ExitSession(io).result, ExitSession(io).wrote)
    /\ session' = ExitSession(io).session
    /\ model' = ExitSession(io).model
    /\ last_message' = ExitSession(io).last_message
    /\ session_files' = ExitSession(io).files
    /\ model_at_start' = None
    /\ UNCHANGED <<settings, messages_file>>

\* ---------------------------------------------------------- save_session
\* save_session that opens a session of the given name when none is active.
SaveSession_create_when_inactive(name, io) ==
    LET current == IF IsSome(session) THEN Unwrap(session)
                   ELSE Session_new(IF name # "" THEN name ELSE TEMP_SESSION_NAME)
        renamed == IF name # "" THEN [current EXCEPT !.name = name] ELSE current
        w == Session_save(renamed, session_files, io)
    IN [result |-> IF w.ok THEN "ok" ELSE "io", session |-> Some(w.session),
        files |-> w.files, wrote |-> w.wrote]

\* save_session that ignores the new name.
SaveSession_no_rename(name, io) ==
    IF ~IsSome(session)
    THEN [result |-> "ok", session |-> session, files |-> session_files, wrote |-> {}]
    ELSE LET w == Session_save(Unwrap(session), session_files, io)
         IN [result |-> IF w.ok THEN "ok" ELSE "io", session |-> Some(w.session),
             files |-> w.files, wrote |-> w.wrote]

SaveSession(name, io) ==
    IF ~IsSome(session)
    THEN [result |-> "ok", session |-> session, files |-> session_files, wrote |-> {}]
    ELSE LET renamed == IF name # "" THEN [Unwrap(session) EXCEPT !.name = name]
                        ELSE Unwrap(session)
             w == Session_save(renamed, session_files, io)
         IN [result |-> IF w.ok THEN "ok" ELSE "io", session |-> Some(w.session),
             files |-> w.files, wrote |-> w.wrote]

save_session_fn(name, io) ==
    /\ CallSaving("save_session", <<name>>, SaveSession(name, io).result,
                  SaveSession(name, io).wrote,
                  IF IsSome(session) /\ SaveSession(name, io).result = "ok"
                  THEN Some([name |-> IF name # "" THEN name ELSE Unwrap(session).name,
                             session |-> Unwrap(session)])
                  ELSE None)
    /\ session' = SaveSession(name, io).session
    /\ session_files' = SaveSession(name, io).files
    /\ UNCHANGED <<settings, model, last_message, messages_file, model_at_start>>

clear_session_messages ==
    /\ Call("clear_session_messages", <<>>, "ok", {})
    /\ session' = IF IsSome(session)
                  THEN Some(Session_clear_messages(Unwrap(session)))
                  ELSE session
    /\ UNCHANGED <<settings, model, last_message, session_files, messages_file,
                   model_at_start>>

end_compressing_session ==
    /\ Call("end_compressing_session", <<>>, "ok", {})
    /\ session' = IF IsSome(session)
                  THEN Some([Unwrap(session) EXCEPT !.compressing = FALSE])
                  ELSE session
    /\ UNCHANGED <<settings, model, last_message, session_files, messages_file,
                   model_at_start>>

\* ---------------------------------------------------------- save_message
\* The transcript entry appended to the message log.
LogEntry(input, output) == <<"# CHAT", input, output>>

\* save_message that logs an entry for an empty output too.
SaveMessage_no_empty_check(input, output, io) ==
    IF IsSome(Input_session_mut(session))
    THEN [result |-> "ok",
          session |-> Some(Session_add_message(Unwrap(session), input, output)),
          log |-> messages_file]
    ELSE IF ~save
         THEN [result |-> "ok", session |-> session, log |-> messages_file]
         ELSE IF ~io
              THEN [result |-> "io", session |-> session, log |-> messages_file]
              ELSE [result |-> "ok", session |-> session,
                    log |-> Append(messages_file, LogEntry(input, output))]

SaveMessage(input, output, io) ==
    IF IsSome(Input_session_mut(session))
    THEN [result |-> "ok",
          session |-> Some(Session_add_message(Unwrap(session), input, output)),
          log |-> messages_file]
    ELSE IF ~save
         THEN [result |-> "ok", session |-> session, log |-> messages_file]
         ELSE IF ~io
              THEN [result |-> "io", session |-> session, log |-> messages_file]
              ELSE IF output = "" \/ ~save
                   THEN [result |-> "ok", session |-> session, log |-> messages_file]
                   ELSE [result |-> "ok", session |-> session,
                         log |-> Append(messages_file, LogEntry(input, output))]

save_message(input, output, io) ==
    /\ Call("save_message", <<input, output>>, SaveMessage(input, output, io).result, {})
    /\ last_message' = Some(<<input, output>>)
    /\ session' = SaveMessage(input, output, io).session
    /\ messages_file' = SaveMessage(input, output, io).log
    /\ UNCHANGED <<settings, model, session_files, model_at_start>>

\* ------------------------------------------------------------------ state
\* StateFlags: a bit set held in an integer.
ROLE == 1
SESSION_EMPTY == 2
SESSION == 4
RAG == 8
\* StateFlags::contains for a single flag.
contains(flags, flag) == (flags \div flag) % 2 = 1

\* state that also reports an empty session as present.
state_empty_is_present ==
    IF IsSome(session)
    THEN IF Session_is_empty(Unwrap(session)) THEN SESSION_EMPTY + SESSION ELSE SESSION
    ELSE 0

\* Config::state: the flags start empty and one flag is or-ed in.
state ==
    IF IsSome(session)
    THEN IF Session_is_empty(Unwrap(session)) THEN SESSION_EMPTY ELSE SESSION
    ELSE 0

\* ---------------------------------------------------------- list_sessions
\* A directory entry is a (stem, extension) pair; the sessions directory
\* holds the session files and two entries that are not session files.
\* read_dir yields the entries in an order of its own.
DirOrders ==
    {<< <<"work", "yaml">>, <<"notes", "txt">>, <<"temp", "yaml">>,
        <<"yaml", "">>, <<"old", "yaml">>, <<"new", "yaml">> >>,
     << <<"old", "yaml">>, <<"new", "yaml">>, <<"yaml", "">>,
        <<"work", "yaml">>, <<"temp", "yaml">>, <<"notes", "txt">> >>}

read_dir(order, files) ==
    SelectSeq(order, LAMBDA e : e[2] # "yaml" \/ IsSome(files[e[1]]))

\* str::strip_suffix(".yaml")
strip_suffix(e) == IF e[2] = "yaml" THEN Some(e[1]) ELSE None

\* The byte order of the session names, as String's Ord compares them.
ByteOrder == <<"new", "old", "temp", "work">>
Less(a, b) ==
    (CHOOSE i \in 1..Len(ByteOrder) : ByteOrder[i] = a)
        < (CHOOSE i \in 1..Len(ByteOrder) : ByteOrder[i] = b)

RECURSIVE insert_sorted(_, _)
insert_sorted(sorted, n) ==
    IF sorted = <<>> THEN <<n>>
    ELSE IF Less(n, Head(sorted)) THEN <<n>> \o sorted
    ELSE <<Head(sorted)>> \o insert_sorted(Tail(sorted), n)

RECURSIVE sort_unstable(_)
sort_unstable(names) ==
    IF names = <<>> THEN <<>>
    ELSE insert_sorted(sort_unstable(Tail(names)), Head(names))

\* The names pushed by the loop over the directory entries.
RECURSIVE collect_names(_)
collect_names(entries) ==
    IF entries = <<>> THEN <<>>
    ELSE IF IsSome(strip_suffix(Head(entries)))
         THEN <<Unwrap(strip_suffix(Head(entries)))>> \o collect_names(Tail(entries))
         ELSE collect_names(Tail(entries))

\* list_sessions that returns the names in directory order.
list_sessions_unsorted(order, files, readable) ==
    IF ~readable THEN <<>> ELSE collect_names(read_dir(order, files))

\* Config::list_sessions; readable tells whether sessions_dir and read_dir
\* succeed.
list_sessions(order, files, readable) ==
    IF ~readable THEN <<>> ELSE sort_unstable(collect_names(read_dir(order, files)))

\* ------------------------------------------------------------ system_info
\* The (temperature, top_p) pair system_info reports.
SystemInfoTemperature ==
    IF IsSome(session) THEN Unwrap(session).temperature ELSE temperature
SystemInfoTopP ==
    IF IsSome(session) THEN Unwrap(session).top_p ELSE top_p

\* ------------------------------------------------ generate_prompt_context
\* The "temperature" and "top_p" entries of the prompt context: present
\* only for a value that is set and not zero.
PromptContextTemperature ==
    IF IsSome(temperature) /\ Unwrap(temperature) # 0 THEN temperature ELSE None
PromptContextTopP ==
    IF IsSome(top_p) /\ Unwrap(top_p) # 0 THEN top_p ELSE None

\* last_reply
last_reply == IF IsSome(last_message) THEN Unwrap(last_message)[2] ELSE ""

\* ----------------------------------------------------------------- update
\* data.split_whitespace() is modelled by its result, the token sequence.
\* The inputs cover, for every key, a value that parses, "null", and a value
\* that does not parse, plus an unknown key and two malformed commands.
NumericKeys == {"max_output_tokens", "temperature", "top_p"}
BoolKeys == {"function_calling", "save"}
UpdateData ==
    {<<k, t>> : k \in NumericKeys, t \in {"null", "1", "true"}}
        \cup {<<"save_session", t>> : t \in {"null", "true", "false", "1"}}
        \cup {<<k, t>> : k \in BoolKeys, t \in {"true", "false", "null"}}
        \cup {<<"temperature", "0">>, <<"foo", "1">>,
              <<"temperature">>, <<"temperature", "1", "1">>}

\* str::parse for the numeric and boolean targets: Some(value) or None on
\* a parse error.
parse_number(tok) == CASE tok = "0" -> Some(0) [] tok = "1" -> Some(1) [] OTHER -> None
parse_bool(tok) == CASE tok = "true" -> Some(TRUE) [] tok = "false" -> Some(FALSE)
                     [] OTHER -> None

\* parse_value that turns a value that does not parse into None.
parse_value_lenient(tok, parsed) ==
    IF tok = "null" THEN [ok |-> TRUE, value |-> None]
    ELSE IF IsSome(parsed) THEN [ok |-> TRUE, value |-> parsed]
    ELSE [ok |-> TRUE, value |-> None]

\* parse_value without the "null" case.
parse_value_no_null(tok, parsed) ==
    IF IsSome(parsed) THEN [ok |-> TRUE, value |-> parsed]
    ELSE [ok |-> FALSE, value |-> None]

\* parse_value: "null" is Ok(None); otherwise the parsed value or an error.
parse_value(tok, parsed) ==
    IF tok = "null" THEN [ok |-> TRUE, value |-> None]
    ELSE IF IsSome(parsed) THEN [ok |-> TRUE, value |-> parsed]
    ELSE [ok |-> FALSE, value |-> None]

\* The outcome of update(data).
UpdateResult(parts) ==
    IF Len(parts) # 2 THEN "usage"
    ELSE CASE parts[1] \in NumericKeys ->
                IF parse_value(parts[2], parse_number(parts[2])).ok
                THEN "ok" ELSE "invalid_value"
           [] parts[1] = "save_session" ->
                IF parse_value(parts[2], parse_bool(parts[2])).ok
                THEN "ok" ELSE "invalid_value"
           [] parts[1] \in BoolKeys ->
                IF IsSome(parse_bool(parts[2])) THEN "ok" ELSE "invalid_value"
           [] OTHER -> "unknown_key"

update(parts) ==
    /\ Call("update", <<parts>>, UpdateResult(parts), {})
    /\ IF UpdateResult(parts) # "ok"
       THEN UNCHANGED <<settings, session, model>>
       ELSE LET key == parts[1]
                num == parse_value(parts[2], parse_number(parts[2])).value
                bool == parse_value(parts[2], parse_bool(parts[2])).value
            IN /\ model' = IF key = "max_output_tokens"
                           THEN set_max_tokens(model, num) ELSE model
               /\ temperature' = IF key = "temperature"
                                 THEN SetTemperature(session, temperature, num).settings
                                 ELSE temperature
               /\ top_p' = IF key = "top_p"
                           THEN SetTopP(session, top_p, num).settings ELSE top_p
               /\ save_session' = IF key = "save_session"
                                  THEN SetSaveSession(session, save_session, bool).settings
                                  ELSE save_session
               /\ session' = CASE key = "temperature" ->
                                    SetTemperature(session, temperature, num).session
                               [] key = "top_p" -> SetTopP(session, top_p, num).session
                               [] key = "save_session" ->
                                    SetSaveSession(session, save_session, bool).session
                               [] OTHER -> session
               /\ function_calling' = IF key = "function_calling"
                                      THEN Unwrap(parse_bool(parts[2]))
                                      ELSE function_calling
               /\ save' = IF key = "save" THEN Unwrap(parse_bool(parts[2])) ELSE save
               /\ UNCHANGED model_id
    /\ UNCHANGED <<last_message, session_files, messages_file, model_at_start>>

\* ------------------------------------------------------------------- Next
Next ==
    \/ \E v \in OptF64 : set_temperature(v)
    \/ \E v \in OptF64 : set_top_p(v)
    \/ \E v \in OptBool : set_save_session(v)
    \/ \E v \in ModelIds : set_model(v)
    \/ set_model_id
    \/ restore_model
    \/ \E n \in UseNames, a \in Answers, io \in BOOLEAN : use_session(n, a, io)
    \/ \E io \in BOOLEAN : exit_session(io)
    \/ \E n \in SaveNames, io \in BOOLEAN : save_session_fn(n, io)
    \/ clear_session_messages
    \/ end_compressing_session
    \/ \E i \in Inputs, o \in Outputs, io \in BOOLEAN : save_message(i, o, io)
    \/ \E d \in UpdateData : update(d)

Spec == Init /\ [][Next]_vars

TypeOK ==
    /\ model_id \in Catalog
    /\ temperature \in OptF64 /\ top_p \in OptF64
    /\ save \in BOOLEAN /\ function_calling \in BOOLEAN
    /\ save_session \in OptBool
    /\ model.id \in Catalog
    /\ steps \in 0..MaxSteps

\* ------------------------------------------------ the shared, locked facade
\* GlobalConfig = Arc<RwLock<Config>>: one control loop calls the mutating
\* methods (&mut self) through the write guard, read-only consumers call the
\* &self methods through a read guard.  Here use_session and exit_session
\* advance one statement at a time, so that their intermediate states exist
\* and are there to be observed by whoever can get at the Config.
Readers == {"r1", "r2"}

\* RwLock::read is granted unless a writer holds the lock; with no exclusion
\* at all it would always be granted.
CanRead_always(lock) == TRUE

CanRead(lock) == ~lock.writer

\* RwLock::write is granted when nobody holds the lock.
CanWrite(lock) == ~lock.writer /\ lock.readers = {}

write_lock ==
    /\ pc = "idle"
    /\ CanWrite(rwlock)
    /\ rwlock' = [rwlock EXCEPT !.writer = TRUE]
    /\ pc' = "locked"
    /\ UNCHANGED <<settings, session, model, last_message, session_files,
                   messages_file, op, args, result, wrote, model_at_start, saved,
                   steps, local_session, seen>>

\* The write guard is dropped once the call has returned.
write_unlock ==
    /\ pc \in {"locked", "done"}
    /\ rwlock.writer
    /\ rwlock' = [rwlock EXCEPT !.writer = FALSE]
    /\ pc' = "idle"
    /\ UNCHANGED <<settings, session, model, last_message, session_files,
                   messages_file, op, args, result, wrote, model_at_start, saved,
                   steps, local_session, seen>>

read_lock(r) ==
    /\ r \notin rwlock.readers
    /\ CanRead(rwlock)
    /\ rwlock' = [rwlock EXCEPT !.readers = @ \cup {r}]
    /\ UNCHANGED <<settings, session, model, last_message, session_files,
                   messages_file, op, args, result, wrote, model_at_start, saved,
                   steps, pc, local_session, seen>>

\* A consumer holding a read guard calls state(), reads the live model and
\* last_reply(); at records where the control loop stood at that moment.
read(r) ==
    /\ r \in rwlock.readers
    /\ seen' = Some([by |-> r, at |-> pc, flags |-> state, model |-> model.id,
                     last_reply |-> last_reply])
    /\ UNCHANGED <<settings, session, model, last_message, session_files,
                   messages_file, op, args, result, wrote, model_at_start, saved,
                   steps, rwlock, pc, local_session>>

read_unlock(r) ==
    /\ r \in rwlock.readers
    /\ rwlock' = [rwlock EXCEPT !.readers = @ \ {r}]
    /\ UNCHANGED <<settings, session, model, last_message, session_files,
                   messages_file, op, args, result, wrote, model_at_start, saved,
                   steps, pc, local_session, seen>>

\* use_session up to the point where a session has been installed: the
\* guard, the temporary and the new-name branches, and of the load branch
\* the load and the assignment of self.session.
use_session_install(name, io) ==
    /\ pc = "locked"
    /\ steps < MaxSteps
    /\ steps' = steps + 1
    /\ op' = "use_session"
    /\ args' = <<name>>
    /\ IF AlreadyInSession(session)
       THEN /\ result' = "already_in_session"
            /\ pc' = "done"
            /\ UNCHANGED <<session, session_files>>
       ELSE IF name # None /\ IsSome(session_files[Unwrap(name)]) /\ io
            THEN /\ session' = Some(Session_load(Unwrap(name),
                                     Unwrap(session_files[Unwrap(name)])))
                 /\ result' = "running"
                 /\ pc' = "use_369"
                 /\ UNCHANGED session_files
            ELSE LET c == UseSessionCreate(name, io)
                 IN /\ session' = c.session
                    /\ session_files' = c.files
                    /\ result' = IF c.result = "ok" THEN "running" ELSE c.result
                    /\ pc' = IF c.result = "ok" THEN "use_373" ELSE "done"
    /\ UNCHANGED <<settings, model, last_message, messages_file, wrote,
                   model_at_start, saved, rwlock, local_session, seen>>

\* self.set_model(&model_id)? on the loaded session's model.
use_session_bind ==
    /\ pc = "use_369"
    /\ LET b == SetModel(session, model, Unwrap(session).model_id)
       IN /\ session' = b.session
          /\ model' = b.model
          /\ result' = IF b.result = "ok" THEN "running" ELSE b.result
          /\ pc' = IF b.result = "ok" THEN "use_373" ELSE "done"
    /\ UNCHANGED <<settings, last_message, session_files, messages_file, op, args,
                   wrote, model_at_start, saved, steps, rwlock, local_session, seen>>

\* The seeding of the installed session, and the return.
use_session_seed(ans) ==
    /\ pc = "use_373"
    /\ LET c == UseSessionSeed([result |-> "ok", session |-> session,
                                model |-> model, files |-> session_files], ans)
       IN /\ session' = c.session
          /\ result' = c.result
    /\ pc' = "done"
    /\ UNCHANGED <<settings, model, last_message, session_files, messages_file,
                   op, args, wrote, model_at_start, saved, steps, rwlock,
                   local_session, seen>>

\* self.session.take()
exit_take ==
    /\ pc = "locked"
    /\ steps < MaxSteps
    /\ steps' = steps + 1
    /\ op' = "exit_session"
    /\ args' = <<>>
    /\ wrote' = {}
    /\ IF IsSome(session)
       THEN /\ local_session' = session
            /\ session' = None
            /\ result' = "running"
            /\ pc' = "exit_393"
       ELSE /\ result' = "ok"
            /\ pc' = "done"
            /\ UNCHANGED <<session, local_session>>
    /\ UNCHANGED <<settings, model, last_message, session_files, messages_file,
                   model_at_start, saved, rwlock, seen>>

\* session.exit(&sessions_dir, false)?; the local is not read again.
exit_persist(io) ==
    /\ pc = "exit_393"
    /\ LET e == Session_exit(Unwrap(local_session), session_files, save_session, io)
       IN /\ session_files' = e.files
          /\ wrote' = e.wrote
          /\ result' = IF e.ok THEN "running" ELSE "io"
          /\ pc' = IF e.ok THEN "exit_394" ELSE "done"
    /\ local_session' = None
    /\ UNCHANGED <<settings, session, model, last_message, messages_file, op, args,
                   model_at_start, saved, steps, rwlock, seen>>

\* self.last_message = None
exit_clear ==
    /\ pc = "exit_394"
    /\ last_message' = None
    /\ pc' = "exit_395"
    /\ UNCHANGED <<settings, session, model, session_files, messages_file, op,
                   args, result, wrote, model_at_start, saved, steps, rwlock,
                   local_session, seen>>

\* self.restore_model()?, and the return.
exit_restore ==
    /\ pc = "exit_395"
    /\ LET r == RestoreModel(session, model, model_id)
       IN /\ session' = r.session
          /\ model' = r.model
          /\ result' = r.result
    /\ pc' = "done"
    /\ UNCHANGED <<settings, last_message, session_files, messages_file, op, args,
                   wrote, model_at_start, saved, steps, rwlock, local_session, seen>>

\* Calls that are taken whole, made by the control loop under the write guard.
locked_save_message(input, output, io) ==
    /\ pc = "locked"
    /\ save_message(input, output, io)

locked_set_model(value) ==
    /\ pc = "locked"
    /\ set_model(value)

LockedNext ==
    \/ write_lock
    \/ write_unlock
    \/ \E r \in Readers : read_lock(r)
    \/ \E r \in Readers : read(r)
    \/ \E r \in Readers : read_unlock(r)
    \/ \E n \in UseNames, io \in BOOLEAN : use_session_install(n, io)
    \/ use_session_bind
    \/ \E a \in Answers : use_session_seed(a)
    \/ exit_take
    \/ \E io \in BOOLEAN : exit_persist(io)
    \/ exit_clear
    \/ exit_restore
    \/ \E i \in Inputs, o \in Outputs, io \in BOOLEAN : locked_save_message(i, o, io)
    \/ \E v \in ModelIds : locked_set_model(v)

LockedSpec == Init /\ [][LockedNext]_vars

\* ================================================================= claims

\* C1: use_session called while a session is active returns the "already in
\* a session" error for every name argument and changes neither the active
\* session (name, overlay, history, dirty), the Settings, the live model,
\* the last-message cache nor any session file.
C1_StartWhileActiveFails ==
    [][(op' = "use_session" /\ IsSome(session)) =>
          /\ result' = "already_in_session"
          /\ session' = session
          /\ UNCHANGED <<settings, model, last_message, session_files, messages_file>>
          /\ wrote' = {}]_vars

C1_Witness ==
    /\ op = "use_session" /\ result = "already_in_session"
    /\ args = <<Some("work")>>
    /\ IsSome(session) /\ Unwrap(session).dirty /\ Unwrap(session).messages # <<>>

\* C2: set_temperature / set_top_p write the value to the session's copy
\* when a session is active and to the Settings' copy otherwise, leave the
\* other copy alone, and the value read back through the facade is the value
\* just set; the Settings' copy never changes while a session is active and
\* no call other than a setter, update, start or exit changes the value read
\* back.
C2_SetterTargetsOneCopy ==
    [][/\ (op' = "set_temperature" /\ IsSome(session)) =>
             /\ IsSome(session') /\ Unwrap(session').temperature = args'[1]
             /\ temperature' = temperature
       /\ (op' = "set_temperature" /\ ~IsSome(session)) =>
             /\ temperature' = args'[1] /\ session' = session
       /\ (op' = "set_temperature") =>
             /\ SystemInfoTemperature' = args'[1]
             /\ SystemInfoTopP' = SystemInfoTopP
       /\ (op' = "set_top_p" /\ IsSome(session)) =>
             /\ IsSome(session') /\ Unwrap(session').top_p = args'[1]
             /\ top_p' = top_p
       /\ (op' = "set_top_p" /\ ~IsSome(session)) =>
             /\ top_p' = args'[1] /\ session' = session
       /\ (op' = "set_top_p") =>
             /\ SystemInfoTopP' = args'[1]
             /\ SystemInfoTemperature' = SystemInfoTemperature
       /\ IsSome(session) => (temperature' = temperature /\ top_p' = top_p)
       /\ (op' \notin {"set_temperature", "set_top_p", "update", "use_session",
                       "exit_session"}) =>
             /\ SystemInfoTemperature' = SystemInfoTemperature
             /\ SystemInfoTopP' = SystemInfoTopP]_vars

C2_Witness ==
    /\ op = "set_temperature" /\ args = <<Some(1)>>
    /\ IsSome(session) /\ Unwrap(session).temperature = Some(1)
    /\ temperature = Some(0)

\* C3: set_model with an identifier that the catalog does not resolve fails
\* with "no such model" and changes nothing: live model, stored pre-session
\* identifier, the session (its model identifier and dirty flag included).
C3_UnresolvableModelNoMutation ==
    [][(op' = "set_model" /\ ~IsSome(Find(args'[1]))) =>
          /\ result' = "no_model"
          /\ model' = model
          /\ model_id' = model_id
          /\ session' = session
          /\ UNCHANGED <<settings, last_message, session_files, messages_file>>]_vars

C3_Witness ==
    /\ op = "set_model" /\ args = <<"X">> /\ result = "no_model"
    /\ IsSome(session) /\ ~Unwrap(session).dirty

\* C4: after a successful set_model the live model is the model resolved
\* from the identifier given, and an active session stores the live model's
\* identifier.
C4_SetModelKeepsSessionAndLiveModelEqual ==
    [][(op' = "set_model" /\ result' = "ok") =>
          /\ model' = Unwrap(Find(args'[1]))
          /\ IsSome(session) =>
                (IsSome(session') /\ Unwrap(session').model_id = model'.id)]_vars

C4_Witness ==
    /\ op = "set_model" /\ result = "ok" /\ args = <<"B">>
    /\ IsSome(session) /\ Unwrap(session).model_id = "B" /\ model.id = "B"
    /\ model_id = "A"

\* C5: a start(name) that fails because the model stored in the on-disk
\* session does not resolve leaves no session active and the live model and
\* the Settings as they were.
C5_FailedLoadLeavesNoSession ==
    [][(op' = "use_session" /\ ~IsSome(session) /\ result' = "no_model") =>
          /\ session' = None
          /\ model' = model
          /\ UNCHANGED settings]_vars

\* C6: after a successful start and a successful exit the live model is the
\* live model of the moment just before the start.
C6_ExitRestoresModelBeforeStart ==
    [][(op' = "exit_session" /\ IsSome(session) /\ IsSome(model_at_start)
        /\ result' = "ok") =>
          model' = Unwrap(model_at_start)]_vars

\* C7: every exit_session call made while a session is active leaves no
\* session active, whether it returns Ok or an error.
C7_ExitAlwaysDiscardsSession ==
    [][(op' = "exit_session" /\ IsSome(session)) => session' = None]_vars

C7_Witness ==
    op = "exit_session" /\ result = "io" /\ session = None

\* C8: every exit_session call that discards an active session leaves the
\* last-message cache absent (last_reply is the empty string).
C8_ExitClearsLastMessage ==
    [][(op' = "exit_session" /\ IsSome(session)) =>
          (last_message' = None /\ last_reply' = "")]_vars

\* C9: with a session active, dirty is true after save_message, a setter
\* (set_temperature, set_top_p, set_save_session, a successful set_model) and
\* clear_session_messages; a dirty session stays dirty across every call that
\* keeps it, except a save that succeeds.
C9_DirtyUntilSuccessfulSave ==
    [][/\ (IsSome(session)
           /\ (\/ op' \in {"save_message", "set_temperature", "set_top_p",
                           "set_save_session", "clear_session_messages"}
               \/ (op' = "set_model" /\ result' = "ok"))) =>
             (IsSome(session') /\ Unwrap(session').dirty)
       /\ (IsSome(session) /\ Unwrap(session).dirty /\ IsSome(session')
           /\ ~(op' = "save_session" /\ result' = "ok")) =>
             Unwrap(session').dirty]_vars

C9_Witness ==
    /\ op = "save_session" /\ result = "io"
    /\ IsSome(session) /\ Unwrap(session).dirty

C12_FreshStartEmptyNotDirty ==
    [][/\ (op' = "use_session" /\ ~IsSome(session) /\ args'[1] # None
           /\ session_files[Unwrap(args'[1])] = None) =>
             /\ IsSome(session')
             /\ Unwrap(session').name = Unwrap(args'[1])
             /\ Unwrap(session').messages = <<>>
             /\ ~Unwrap(session').dirty
             /\ Unwrap(session').model_id = model.id
             /\ Unwrap(session').temperature = temperature
             /\ Unwrap(session').top_p = top_p
             /\ Unwrap(session').save_session = save_session
             /\ UNCHANGED settings
       /\ (IsSome(session)
           /\ op' \in {"set_temperature", "set_top_p", "set_save_session",
                       "set_model"}) =>
             UNCHANGED settings]_vars

\* C12 (amended): the same, except that the history is empty and dirty false
\* only when no seed turn was taken: with the last-message cache present the
\* session is either empty and not dirty, or holds exactly the cached turn
\* and is dirty.
C12_FreshStartOverlayAndSeed ==
    [][/\ (op' = "use_session" /\ ~IsSome(session) /\ args'[1] # None
           /\ session_files[Unwrap(args'[1])] = None) =>
             /\ IsSome(session')
             /\ Unwrap(session').name = Unwrap(args'[1])
             /\ \/ (Unwrap(session').messages = <<>> /\ ~Unwrap(session').dirty)
                \/ (/\ IsSome(last_message)
                    /\ Unwrap(session').messages = <<Unwrap(last_message)>>
                    /\ Unwrap(session').dirty)
             /\ Unwrap(session').model_id = model.id
             /\ Unwrap(session').temperature = temperature
             /\ Unwrap(session').top_p = top_p
             /\ Unwrap(session').save_session = save_session
             /\ UNCHANGED settings
       /\ (IsSome(session)
           /\ op' \in {"set_temperature", "set_top_p", "set_save_session",
                       "set_model"}) =>
             UNCHANGED settings]_vars

C12_Witness ==
    /\ op = "use_session" /\ args = <<Some("new")>> /\ result = "ok"
    /\ session_files["new"] = None
    /\ IsSome(session) /\ Unwrap(session).name = "new"
    /\ Unwrap(session).messages = <<>> /\ ~Unwrap(session).dirty
    /\ temperature = Some(1) /\ Unwrap(session).temperature = Some(1)
    /\ IsSome(last_message)

\* C13: update fails and changes neither the Settings, the session nor the
\* live model when the command is not exactly two tokens (usage error), when
\* the key is not one of the six known keys (unknown key), and when the value
\* neither parses for the key's type nor is a permitted "null" (invalid
\* value).
C13_UpdateErrorsMutateNothing ==
    [][(op' = "update") =>
          LET parts == args'[1]
              known == {"max_output_tokens", "temperature", "top_p",
                        "function_calling", "save", "save_session"}
              numbers == {"0", "1"}
              bools == {"true", "false"}
              invalid ==
                  \/ (parts[1] \in {"max_output_tokens", "temperature", "top_p"}
                      /\ parts[2] \notin numbers \cup {"null"})
                  \/ (parts[1] = "save_session"
                      /\ parts[2] \notin bools \cup {"null"})
                  \/ (parts[1] \in {"function_calling", "save"}
                      /\ parts[2] \notin bools)
          IN /\ Len(parts) # 2 => result' = "usage"
             /\ (Len(parts) = 2 /\ parts[1] \notin known) => result' = "unknown_key"
             /\ (Len(parts) = 2 /\ parts[1] \in known /\ invalid) =>
                   result' = "invalid_value"
             /\ (Len(parts) = 2 /\ parts[1] \in known /\ ~invalid) => result' = "ok"
             /\ result' # "ok" =>
                   UNCHANGED <<settings, session, model, last_message,
                               session_files, messages_file>>]_vars

C13_Witness ==
    /\ op = "update" /\ result = "invalid_value"
    /\ args = << <<"temperature", "true">> >>
    /\ IsSome(session) /\ Unwrap(session).temperature = Some(1)
    /\ ~Unwrap(session).dirty

\* C14: update("save_session null") makes the save-session toggle absent on
\* the session when one is active, leaving the Settings' toggle alone, and on
\* the Settings otherwise; the effective toggle is then the Settings' toggle
\* if set and the built-in default (persist) otherwise.  "null" for
\* temperature and top_p clears the value in the same way instead of failing.
C14_NullClearsTheRoutedCopy ==
    [][(op' = "update" /\ Len(args'[1]) = 2 /\ args'[1][2] = "null"
        /\ args'[1][1] \in {"save_session", "temperature", "top_p"}) =>
          LET key == args'[1][1]
          IN /\ result' = "ok"
             /\ IsSome(session') = IsSome(session)
             /\ (key = "save_session" /\ IsSome(session)) =>
                   /\ Unwrap(session').save_session = None
                   /\ save_session' = save_session
                   /\ EffectiveSaveSession(Unwrap(session'), save_session') =
                         (IF save_session = None THEN TRUE ELSE save_session[1])
             /\ (key = "save_session" /\ ~IsSome(session)) =>
                   save_session' = None
             /\ (key = "temperature" /\ IsSome(session)) =>
                   (Unwrap(session').temperature = None /\ temperature' = temperature)
             /\ (key = "temperature" /\ ~IsSome(session)) => temperature' = None
             /\ (key = "top_p" /\ IsSome(session)) =>
                   (Unwrap(session').top_p = None /\ top_p' = top_p)
             /\ (key = "top_p" /\ ~IsSome(session)) => top_p' = None]_vars

C14_Witness ==
    /\ op = "update" /\ args = << <<"save_session", "null">> >> /\ result = "ok"
    /\ IsSome(session) /\ Unwrap(session).save_session = None
    /\ save_session = Some(FALSE)

\* C15: every save_message(input, output) call sets the last-message cache
\* to (input, output).  With a session active the turn is appended to the
\* session's history and the log is left alone.  With no session active, a
\* call that does not fail on the log file appends exactly one entry when the
\* save-to-log setting is on and output is non-empty, and none otherwise.  No
\* call ever truncates or rewrites what the log already holds.
C15_SaveMessageCacheSessionOrLog ==
    [][/\ (op' = "save_message") =>
             LET turn == <<args'[1], args'[2]>>
             IN /\ last_message' = Some(turn)
                /\ IsSome(session) =>
                      /\ IsSome(session')
                      /\ Unwrap(session').messages =
                            Append(Unwrap(session).messages, turn)
                      /\ messages_file' = messages_file
                      /\ result' = "ok"
                /\ ~IsSome(session) =>
                      /\ session' = session
                      /\ messages_file' =
                            IF save /\ turn[2] # "" /\ result' # "io"
                            THEN Append(messages_file, <<"# CHAT", turn[1], turn[2]>>)
                            ELSE messages_file
                      /\ result' = "io" => save
       /\ Len(messages_file') >= Len(messages_file)
       /\ SubSeq(messages_file', 1, Len(messages_file)) = messages_file]_vars

C15_Witness ==
    /\ op = "save_message" /\ args = <<"q", "a">> /\ result = "ok"
    /\ ~IsSome(session) /\ save
    /\ messages_file = << <<"# CHAT", "q", "a">>, <<"# CHAT", "q", "a">> >>
    /\ last_message = Some(<<"q", "a">>)

\* C16: state() never holds both session-present and session-empty: it is
\* empty with no session, exactly session-empty with an active session of
\* empty history, exactly session-present with an active session of non-empty
\* history, and never holds the role or RAG flag.
C16_StateFlagsExclusive ==
    /\ ~(contains(state, SESSION) /\ contains(state, SESSION_EMPTY))
    /\ ~IsSome(session) => state = 0
    /\ (IsSome(session) /\ Unwrap(session).messages = <<>>) =>
          (contains(state, SESSION_EMPTY) /\ state = SESSION_EMPTY)
    /\ (IsSome(session) /\ Unwrap(session).messages # <<>>) =>
          (contains(state, SESSION) /\ state = SESSION)
    /\ ~contains(state, ROLE)
    /\ ~contains(state, RAG)

C16_Witness ==
    /\ op = "clear_session_messages"
    /\ IsSome(session) /\ Unwrap(session).messages = <<>> /\ Unwrap(session).dirty
    /\ state = SESSION_EMPTY

\* C17: list_sessions returns the empty list when the sessions directory is
\* missing, unreadable or empty, and otherwise exactly the stems of the
\* entries with the session file extension, each once, in ascending order,
\* whatever order the directory yields them in; after a successful save the
\* session's current name is in the list.
C17_ListSessionsSortedStems ==
    \A order \in DirOrders :
        LET names == list_sessions(order, session_files, TRUE)
            present == {n \in SessionNames : session_files[n] # None}
        IN /\ list_sessions(order, session_files, FALSE) = <<>>
           /\ list_sessions(<<>>, session_files, TRUE) = <<>>
           /\ {names[i] : i \in 1..Len(names)} = present
           /\ Len(names) = Cardinality(present)
           /\ \A i \in 1..Len(names) : \A j \in 1..Len(names) :
                 i < j => Less(names[i], names[j])
           /\ (op = "save_session" /\ result = "ok" /\ IsSome(session)) =>
                 \E i \in 1..Len(names) : names[i] = Unwrap(session).name

C17_Witness ==
    /\ op = "save_session" /\ result = "ok" /\ args = <<"new">>
    /\ IsSome(session) /\ Unwrap(session).name = "new"
    /\ \A order \in DirOrders :
          list_sessions(order, session_files, TRUE) = <<"new", "old", "temp", "work">>

\* C18: every read of temperature and top-p through the facade reports the
\* active session's value when a session is active and the Settings' value
\* otherwise: the system info, and the prompt context, whose entry is present
\* exactly when that value is set and not zero.
C18_ReadsFollowTheSession ==
    LET t == IF session # None THEN session[1].temperature ELSE temperature
        p == IF session # None THEN session[1].top_p ELSE top_p
        entry(v) == IF v # None /\ v[1] # 0 THEN v ELSE None
    IN /\ SystemInfoTemperature = t
       /\ SystemInfoTopP = p
       /\ PromptContextTemperature = entry(t)
       /\ PromptContextTopP = entry(p)

\* C19: start with no name and no session active removes the file of the
\* temporary session name, if any, and installs a temporary session that
\* takes no history from that file (it is empty, or holds only the cached
\* turn taken as seed); when the removal fails, start fails, no session
\* becomes active and nothing changes.
C19_TempStartRemovesStaleFile ==
    [][(op' = "use_session" /\ ~IsSome(session) /\ args'[1] = None) =>
          /\ result' = "io" =>
                /\ session_files[TEMP_SESSION_NAME] # None
                /\ session' = None
                /\ UNCHANGED <<settings, model, last_message, session_files>>
          /\ result' # "io" =>
                /\ session_files' = [session_files EXCEPT ![TEMP_SESSION_NAME] = None]
                /\ IsSome(session')
                /\ Unwrap(session').name = TEMP_SESSION_NAME
                /\ \/ Unwrap(session').messages = <<>>
                   \/ (/\ IsSome(last_message)
                       /\ Unwrap(session').messages = <<Unwrap(last_message)>>)]_vars

C19_Witness ==
    /\ op = "use_session" /\ args = <<None>> /\ result = "ok"
    /\ steps = 1
    /\ session_files[TEMP_SESSION_NAME] = None
    /\ IsSome(session) /\ Unwrap(session).name = TEMP_SESSION_NAME
    /\ Unwrap(session).messages = <<>>

\* C20: seed-on-start.  The confirmation is asked only for an empty new
\* session with the last-message cache present; accepted, the cached turn is
\* the session's only message; refused, the session stays empty and not
\* dirty; with a non-empty session or no cache the history is the one created
\* or loaded; when the confirmation fails, start fails and no session is
\* active.
C20_SeedOnStart ==
    [][(op' = "use_session" /\ ~IsSome(session)) =>
          LET name == args'[1]
              base == IF name # None /\ session_files[name[1]] # None
                      THEN session_files[name[1]][1].messages
                      ELSE <<>>
          IN /\ result' = "prompt" =>
                   (base = <<>> /\ last_message # None /\ session' = None)
             /\ (result' = "ok" /\ (base # <<>> \/ last_message = None)) =>
                   session'[1].messages = base
             /\ (result' = "ok" /\ base = <<>> /\ last_message # None) =>
                   \/ session'[1].messages = <<last_message[1]>>
                   \/ (session'[1].messages = <<>> /\ ~session'[1].dirty)]_vars

\* C21: session presence changes only through use_session and exit_session.
\* No other call (set_temperature, set_top_p, set_save_session, set_model,
\* set_model_id, restore_model, update, save_message, save_session,
\* clear_session_messages, end_compressing_session) turns an inactive facade
\* active or an active one inactive; save_session and exit_session called
\* with no session active return success, create no session, write no
\* session file and leave the Settings, the live model and the last-message
\* cache unchanged.
C21_PresenceOnlyThroughStartAndExit ==
    [][/\ op' \notin {"use_session", "exit_session"} =>
             IsSome(session') = IsSome(session)
       /\ (op' \in {"save_session", "exit_session"} /\ ~IsSome(session)) =>
             /\ result' = "ok"
             /\ session' = None
             /\ wrote' = {}
             /\ UNCHANGED <<settings, model, last_message, session_files,
                            messages_file>>]_vars

\* save_session("new") was called with no session active and a turn cached.
C21_Witness ==
    /\ op = "save_session" /\ args = <<"new">> /\ result = "ok"
    /\ session = None
    /\ IsSome(last_message)
    /\ session_files["new"] = None
    /\ wrote = {}

====
